---- MODULE Spec2Model ----
(***************************************************************************)
(* Model of psan.annotate: the windowed annotation renderer                *)
(* (RecognizedTagFilter, a SAX filter between the XML parser and an        *)
(* XMLGenerator) and its caller show_candidate.                            *)
(*                                                                         *)
(* The filter object is the record `self`; its fields carry the names of   *)
(* the Python attributes without the leading underscore.  Two more fields  *)
(* ride along in the record: `out`, the sequence of calls that reach the   *)
(* XMLGenerator (what ends in the StringIO of show_candidate), and `err`,  *)
(* the exception raised by a handler ("none" while there is none).         *)
(* `lookups` records the list indices used on self._annotations.           *)
(***************************************************************************)
EXTENDS Integers, Sequences, FiniteSets, TLC

(***************************************************************************)
(* Bounds of the model.  show_candidate uses a margin of 100 characters;   *)
(* the model scales the margin down so that short documents leave the      *)
(* window.                                                                 *)
(***************************************************************************)
Margin == 2
MaxTokens == 3
MaxNe == 1

None == "None"

(***************************************************************************)
(* Input documents.  A skeleton is a sequence of symbols: "(" ")" open and *)
(* close a sentence, "[" "]" open and close an ne element, the others are  *)
(* tokens.  Events(sk) is the SAX event stream of the recognized file:     *)
(* token ids are the running character offset, an ne carries the offsets   *)
(* of its content (start, end exclusive), a space separates a token from   *)
(* what opens after it in the sentence, a space and a line break separate  *)
(* two sentences.  A document has at most MaxTokens tokens and MaxNe ne    *)
(* elements.                                                               *)
(***************************************************************************)
TokenText(sym) ==
    CASE sym = "t" -> <<"a">>
      [] sym = "tAnna" -> <<"A", "n", "n", "a">>
      [] sym = "tVisited" -> <<"v", "i", "s", "i", "t", "e", "d">>
      [] OTHER -> <<>>

TokenSyms == {"t"}

IsToken(sym) == sym \notin {"(", ")", "[", "]"}

IsOpener(sym) == sym \notin {")", "]"}

GapText == <<" ">>

SentenceGapText == <<" ", "\n">>

RECURSIVE SeqsOf(_, _)
RECURSIVE UnitsOf(_, _)
\* contents of a sentence or an ne: n tokens, at ne nesting depth d
SeqsOf(n, d) ==
    IF n = 0 THEN {<<>>}
    ELSE UNION {{u \o r : u \in UnitsOf(k, d), r \in SeqsOf(n - k, d)} : k \in 1..n}

UnitsOf(k, d) ==
    (IF k = 1 THEN {<<t>> : t \in TokenSyms} ELSE {})
    \cup (IF d < MaxNe
          THEN {<<"[">> \o s \o <<"]">> : s \in SeqsOf(k, d + 1)}
          ELSE {})

RECURSIVE DocsOf(_)
\* documents of exactly n tokens: one or more non-empty sentences
DocsOf(n) ==
    IF n = 0 THEN {<<>>}
    ELSE UNION {{<<"(">> \o s \o <<")">> \o r : s \in SeqsOf(k, 0), r \in DocsOf(n - k)}
                : k \in 1..n}

Skeletons ==
    {sk \in UNION {DocsOf(n) : n \in 1..MaxTokens} :
        Cardinality({i \in 1..Len(sk) : sk[i] = "["}) <= MaxNe}

\* a gap precedes every opener that follows a token or a closer
HasGap(sk, i) == i > 1 /\ IsOpener(sk[i]) /\ (IsToken(sk[i - 1]) \/ ~IsOpener(sk[i - 1]))

GapAt(sk, i) ==
    IF ~HasGap(sk, i) THEN <<>> ELSE IF sk[i] = "(" THEN SentenceGapText ELSE GapText

RECURSIVE OffsetAt(_, _)
\* running offset when the element of symbol i opens (or closes, for a closer)
OffsetAt(sk, i) ==
    IF i = 1 THEN 0
    ELSE OffsetAt(sk, i - 1) + Len(TokenText(sk[i - 1])) + Len(GapAt(sk, i))

RECURSIVE MatchOf(_, _, _)
\* index of the "]" that closes the "[" whose content starts at i (open = pending opens)
MatchOf(sk, i, open) ==
    IF sk[i] = "]" /\ open = 1 THEN i
    ELSE MatchOf(sk, i + 1, open + (IF sk[i] = "[" THEN 1 ELSE IF sk[i] = "]" THEN -1 ELSE 0))

NestAt(sk, i) == Cardinality({j \in 1..(i - 1) : sk[j] = "["}) - Cardinality({j \in 1..(i - 1) : sk[j] = "]"})

NoAttr == -1

Ev(kind, name, id, start, end, type, content) ==
    [kind |-> kind, name |-> name, id |-> id, start |-> start, end |-> end,
     type |-> type, content |-> content]

StartEv(name, id, start, end, type) == Ev("start", name, id, start, end, type, <<>>)
EndEv(name) == Ev("end", name, NoAttr, NoAttr, NoAttr, "", <<>>)
CharsEv(content) == Ev("chars", "", NoAttr, NoAttr, NoAttr, "", content)

NeType(depth) == IF depth = 0 THEN "pf" ELSE "ps"

EventsOfSymbol(sk, i) ==
    LET gap == IF HasGap(sk, i) THEN <<CharsEv(GapAt(sk, i))>> ELSE <<>>
        sym == sk[i]
    IN  CASE sym = "(" -> gap \o <<StartEv("sentence", NoAttr, NoAttr, NoAttr, "")>>
          [] sym = ")" -> <<EndEv("sentence")>>
          [] sym = "[" -> gap \o <<StartEv("ne", NoAttr, OffsetAt(sk, i),
                                           OffsetAt(sk, MatchOf(sk, i + 1, 1)),
                                           NeType(NestAt(sk, i)))>>
          [] sym = "]" -> <<EndEv("ne")>>
          [] OTHER -> gap \o <<StartEv("token", OffsetAt(sk, i), NoAttr, NoAttr, ""),
                               CharsEv(TokenText(sym)), EndEv("token")>>

RECURSIVE EventsFrom(_, _)
EventsFrom(sk, i) == IF i > Len(sk) THEN <<>> ELSE EventsOfSymbol(sk, i) \o EventsFrom(sk, i + 1)

Events(sk) == EventsFrom(sk, 1)

(***************************************************************************)
(* The decision store and the Decision Index.                              *)
(***************************************************************************)
PUBLIC == "PUBLIC"
SECRET == "SECRET"
UNDECIDED == "UNDECIDED"

Row(ref_start, ref_end, decision) ==
    [ref_start |-> ref_start, ref_end |-> ref_end, decision |-> decision]

\* d[k] = v on a Python dict kept as the sequence of its <<key, value>> items
DictSet(d, k, v) ==
    IF \E i \in 1..Len(d) : d[i][1] = k
    THEN [i \in 1..Len(d) |-> IF d[i][1] = k THEN <<k, v>> ELSE d[i]]
    ELSE Append(d, <<k, v>>)

\* d.get(k)
DictGet(d, k) ==
    IF \E i \in 1..Len(d) : d[i][1] = k
    THEN (CHOOSE p \in {d[i] : i \in 1..Len(d)} : p[1] = k)[2]
    ELSE None

RECURSIVE FillDecisions(_, _, _)
FillDecisions(decisions, rows, window_start) ==
    IF rows = <<>> THEN decisions
    ELSE LET row == Head(rows)
             i == row.ref_start - window_start + 1
         IN  FillDecisions([decisions EXCEPT ![i] = DictSet(@, row.ref_end - row.ref_start, row.decision)],
                           Tail(rows), window_start)

\* rows: the result of the query, the rows of the document with
\* window_start <= ref_start <= window_end, in the order the store returns them
_get_decisions(rows, window_start, window_end) ==
    FillDecisions([i \in 1..(window_end - window_start + 1) |-> <<>>], rows, window_start)

(***************************************************************************)
(* RecognizedTagFilter.                                                    *)
(***************************************************************************)
OutEv(kind, name, class, fn, a, b, content) ==
    [kind |-> kind, name |-> name, class |-> class, fn |-> fn, a |-> a, b |-> b,
     content |-> content]

\* XMLGenerator.startElement(name, attrs)
super_startElement(s, name, class, fn, a, b) ==
    [s EXCEPT !.out = Append(@, OutEv("start", name, class, fn, a, b, <<>>))]

\* XMLGenerator.endElement(name)
super_endElement(s, name) ==
    [s EXCEPT !.out = Append(@, OutEv("end", name, <<>>, "", NoAttr, NoAttr, <<>>))]

\* XMLGenerator.characters(content): writes nothing for an empty string
super_characters(s, content) ==
    IF content = <<>> THEN s
    ELSE [s EXCEPT !.out = Append(@, OutEv("chars", "", <<>>, "", NoAttr, NoAttr, content))]

Raise(s, exc) == [s EXCEPT !.err = exc]

\* self._annotations[idx] is defined for -len <= idx < len
IndexInRange(s, idx) == -Len(s.annotations) <= idx /\ idx < Len(s.annotations)

ListItem(s, idx) ==
    IF idx >= 0 THEN s.annotations[idx + 1] ELSE s.annotations[Len(s.annotations) + idx + 1]

RecognizedTagFilter(highlight_start, highlight_end, window_start, window_end, rows) ==
    [window_start |-> IF window_start > 0 THEN window_start ELSE 0,
     window_end |-> window_end,
     in_window |-> FALSE,
     annotations |-> _get_decisions(rows, IF window_start > 0 THEN window_start ELSE 0, window_end),
     highlight_start |-> highlight_start,
     highlight_end |-> highlight_end,
     highlight_tokens |-> <<>>,
     entity_type |-> None,
     user_cadidate_end |-> -1,
     token_id |-> -1,
     nested_depth |-> 0,
     last_sentence |-> FALSE,
     out |-> <<>>,
     err |-> "none",
     lookups |-> {}]

\* _startCandidate reading the table at the end of the candidate
_startCandidate_KeyedAtEnd(s, ref_start, ref_end, is_highlighted) ==
    LET idx == ref_end - s.window_start
        s1 == [s EXCEPT !.lookups = @ \cup {idx}]
    IN  IF ~IndexInRange(s, idx) THEN Raise(s1, "IndexError")
        ELSE LET annotation == DictGet(ListItem(s, idx), ref_end - ref_start)
                 class0 == IF annotation = PUBLIC THEN <<"candidate", "candidate-public">>
                           ELSE IF annotation = SECRET THEN <<"candidate", "candidate-secret">>
                           ELSE <<"candidate">>
                 class == IF is_highlighted THEN Append(class0, "highlight") ELSE class0
                 s2 == [s1 EXCEPT !.nested_depth = @ + 1]
             IN  super_startElement(s2, "span", class, "onTokenIntervalClick", ref_start, ref_end)

_startCandidate(s, ref_start, ref_end, is_highlighted) ==
    LET idx == ref_start - s.window_start
        s1 == [s EXCEPT !.lookups = @ \cup {idx}]
    IN  IF ~IndexInRange(s, idx) THEN Raise(s1, "IndexError")
        ELSE LET annotation == DictGet(ListItem(s, idx), ref_end - ref_start)
                 class0 == IF annotation = PUBLIC THEN <<"candidate", "candidate-public">>
                           ELSE IF annotation = SECRET THEN <<"candidate", "candidate-secret">>
                           ELSE <<"candidate">>
                 class == IF is_highlighted THEN Append(class0, "highlight") ELSE class0
                 s2 == [s1 EXCEPT !.nested_depth = @ + 1]
             IN  super_startElement(s2, "span", class, "onTokenIntervalClick", ref_start, ref_end)

_endCandidate(s) ==
    LET s1 == super_endElement(s, "span")
    IN  [s1 EXCEPT !.nested_depth = @ - 1]

\* the first public or secret item of a dict, <<>> when there is none
RECURSIVE FirstDecided(_)
FirstDecided(items) ==
    IF items = <<>> THEN <<>>
    ELSE IF Head(items)[2] \in {PUBLIC, SECRET} THEN Head(items)
    ELSE FirstDecided(Tail(items))

\* OpenToken opening no element for a plain token
OpenToken_NoPlainElement(s, class) ==
    IF s.user_cadidate_end # -1
    THEN super_startElement([s EXCEPT !.nested_depth = @ + 1], "span", class,
                            "onTokenIntervalClick", s.token_id, s.user_cadidate_end)
    ELSE s

\* the tail of _startToken, from "If we have to transform token to candidate"
OpenToken(s, class) ==
    IF s.user_cadidate_end # -1
    THEN super_startElement([s EXCEPT !.nested_depth = @ + 1], "span", class,
                            "onTokenIntervalClick", s.token_id, s.user_cadidate_end)
    ELSE super_startElement(s, "span", class, "onTokenClick", s.token_id, NoAttr)

_startToken(s) ==
    IF s.token_id = s.highlight_start
    THEN IF s.user_cadidate_end # -1 THEN Raise(s, "AssertionError")
         ELSE OpenToken([s EXCEPT !.user_cadidate_end = s.highlight_end], <<"token", "highlight">>)
    ELSE LET idx == s.token_id - s.window_start
             s1 == [s EXCEPT !.lookups = @ \cup {idx}]
         IN  IF ~IndexInRange(s, idx) THEN Raise(s1, "IndexError")
             ELSE LET hit == FirstDecided(ListItem(s, idx))
                  IN  IF hit = <<>> THEN OpenToken(s1, <<"token">>)
                      ELSE OpenToken([s1 EXCEPT !.user_cadidate_end = s.token_id + hit[1]],
                                     IF hit[2] = PUBLIC THEN <<"token", "candidate-public">>
                                     ELSE <<"token", "candidate-secret">>)

\* startElement entering the window at every sentence that starts after window_start
startElement_NoUpperBound(s, ev) ==
    LET s1 == IF ev.name = "sentence"
              THEN [s EXCEPT !.in_window = (s.window_start <= s.token_id + 1)]
              ELSE IF ev.name = "token" THEN [s EXCEPT !.token_id = ev.id]
              ELSE s
    IN  IF ~s1.in_window THEN s1
        ELSE IF ev.name = "ne"
        THEN LET highlighted == s1.highlight_start <= ev.start /\ ev.end <= s1.highlight_end
                 s2 == IF s1.highlight_start = ev.start /\ ev.end = s1.highlight_end
                       THEN [s1 EXCEPT !.entity_type = ev.type] ELSE s1
                 s3 == IF s2.nested_depth = 0 /\ ev.start = s2.highlight_start
                          /\ ev.end < s2.highlight_end
                       THEN _startToken([s2 EXCEPT !.token_id = ev.start])
                       ELSE s2
             IN  IF s3.err # "none" THEN s3
                 ELSE _startCandidate(s3, ev.start, ev.end, highlighted)
        ELSE IF ev.name = "token" /\ s1.nested_depth = 0 THEN _startToken(s1)
        ELSE s1

\* startElement opening an element for a token whatever the depth
startElement_AnyDepth(s, ev) ==
    LET s1 == IF ev.name = "sentence"
              THEN [s EXCEPT !.in_window = (s.window_start <= s.token_id + 1
                                            /\ s.token_id + 1 <= s.window_end)]
              ELSE IF ev.name = "token" THEN [s EXCEPT !.token_id = ev.id]
              ELSE s
    IN  IF ~s1.in_window THEN s1
        ELSE IF ev.name = "ne"
        THEN LET highlighted == s1.highlight_start <= ev.start /\ ev.end <= s1.highlight_end
                 s2 == IF s1.highlight_start = ev.start /\ ev.end = s1.highlight_end
                       THEN [s1 EXCEPT !.entity_type = ev.type] ELSE s1
                 s3 == IF s2.nested_depth = 0 /\ ev.start = s2.highlight_start
                          /\ ev.end < s2.highlight_end
                       THEN _startToken([s2 EXCEPT !.token_id = ev.start])
                       ELSE s2
             IN  IF s3.err # "none" THEN s3
                 ELSE _startCandidate(s3, ev.start, ev.end, highlighted)
        ELSE IF ev.name = "token" THEN _startToken(s1)
        ELSE s1

\* startElement taking the entity type from every candidate inside the focus span
startElement_TypeOfContained(s, ev) ==
    LET s1 == IF ev.name = "sentence"
              THEN [s EXCEPT !.in_window = (s.window_start <= s.token_id + 1
                                            /\ s.token_id + 1 <= s.window_end)]
              ELSE IF ev.name = "token" THEN [s EXCEPT !.token_id = ev.id]
              ELSE s
    IN  IF ~s1.in_window THEN s1
        ELSE IF ev.name = "ne"
        THEN LET highlighted == s1.highlight_start <= ev.start /\ ev.end <= s1.highlight_end
                 s2 == IF highlighted
                       THEN [s1 EXCEPT !.entity_type = ev.type] ELSE s1
                 s3 == IF s2.nested_depth = 0 /\ ev.start = s2.highlight_start
                          /\ ev.end < s2.highlight_end
                       THEN _startToken([s2 EXCEPT !.token_id = ev.start])
                       ELSE s2
             IN  IF s3.err # "none" THEN s3
                 ELSE _startCandidate(s3, ev.start, ev.end, highlighted)
        ELSE IF ev.name = "token" /\ s1.nested_depth = 0 THEN _startToken(s1)
        ELSE s1

\* startElement marking only the candidate on exactly the focus span
startElement_HighlightExact(s, ev) ==
    LET s1 == IF ev.name = "sentence"
              THEN [s EXCEPT !.in_window = (s.window_start <= s.token_id + 1
                                            /\ s.token_id + 1 <= s.window_end)]
              ELSE IF ev.name = "token" THEN [s EXCEPT !.token_id = ev.id]
              ELSE s
    IN  IF ~s1.in_window THEN s1
        ELSE IF ev.name = "ne"
        THEN LET highlighted == s1.highlight_start = ev.start /\ ev.end = s1.highlight_end
                 s2 == IF s1.highlight_start = ev.start /\ ev.end = s1.highlight_end
                       THEN [s1 EXCEPT !.entity_type = ev.type] ELSE s1
                 s3 == IF s2.nested_depth = 0 /\ ev.start = s2.highlight_start
                          /\ ev.end < s2.highlight_end
                       THEN _startToken([s2 EXCEPT !.token_id = ev.start])
                       ELSE s2
             IN  IF s3.err # "none" THEN s3
                 ELSE _startCandidate(s3, ev.start, ev.end, highlighted)
        ELSE IF ev.name = "token" /\ s1.nested_depth = 0 THEN _startToken(s1)
        ELSE s1

startElement(s, ev) ==
    LET s1 == IF ev.name = "sentence"
              THEN [s EXCEPT !.in_window = (s.window_start <= s.token_id + 1
                                            /\ s.token_id + 1 <= s.window_end)]
              ELSE IF ev.name = "token" THEN [s EXCEPT !.token_id = ev.id]
              ELSE s
    IN  IF ~s1.in_window THEN s1
        ELSE IF ev.name = "ne"
        THEN LET highlighted == s1.highlight_start <= ev.start /\ ev.end <= s1.highlight_end
                 s2 == IF s1.highlight_start = ev.start /\ ev.end = s1.highlight_end
                       THEN [s1 EXCEPT !.entity_type = ev.type] ELSE s1
                 s3 == IF s2.nested_depth = 0 /\ ev.start = s2.highlight_start
                          /\ ev.end < s2.highlight_end
                       THEN _startToken([s2 EXCEPT !.token_id = ev.start])
                       ELSE s2
             IN  IF s3.err # "none" THEN s3
                 ELSE _startCandidate(s3, ev.start, ev.end, highlighted)
        ELSE IF ev.name = "token" /\ s1.nested_depth = 0 THEN _startToken(s1)
        ELSE s1

IsSpace(c) == c \in {" ", "\n", "\t"}

RECURSIVE lstrip(_)
lstrip(content) ==
    IF content # <<>> /\ IsSpace(Head(content)) THEN lstrip(Tail(content)) ELSE content

RECURSIVE rstrip(_)
rstrip(content) ==
    IF content # <<>> /\ IsSpace(content[Len(content)])
    THEN rstrip(SubSeq(content, 1, Len(content) - 1)) ELSE content

\* str.strip()
strip(content) == rstrip(lstrip(content))

RECURSIVE split(_, _)
\* content.split("\n"), cur is the line being read
split(content, cur) ==
    IF content = <<>> THEN <<cur>>
    ELSE IF Head(content) = "\n" THEN <<cur>> \o split(Tail(content), <<>>)
    ELSE split(Tail(content), Append(cur, Head(content)))

RECURSIVE EmitLines(_, _, _)
\* the loop "for line in content.split(...)"
EmitLines(s, lines, fist_line) ==
    IF lines = <<>> THEN s
    ELSE LET s1 == super_characters(s, Head(lines))
             s2 == IF fist_line THEN s1
                   ELSE super_startElement(s1, "br/", <<>>, "", NoAttr, NoAttr)
         IN  EmitLines(s2, Tail(lines), FALSE)

\* characters showing text whatever the window
characters_NoWindowCheck(s, content) ==
    LET text == strip(content)
        s1 == IF s.highlight_start <= s.token_id /\ s.token_id <= s.highlight_end
                 /\ Len(text) > 0
              THEN [s EXCEPT !.highlight_tokens = Append(@, text)]
              ELSE s
    IN  EmitLines(s1, split(content, <<>>), TRUE)

\* characters collecting the text as it comes
characters_NoStrip(s, content) ==
    IF s.in_window \/ s.last_sentence
    THEN LET text == content
             s1 == IF s.highlight_start <= s.token_id /\ s.token_id <= s.highlight_end
                      /\ Len(text) > 0
                   THEN [s EXCEPT !.highlight_tokens = Append(@, text)]
                   ELSE s
         IN  EmitLines(s1, split(content, <<>>), TRUE)
    ELSE s

characters(s, content) ==
    IF s.in_window \/ s.last_sentence
    THEN LET text == strip(content)
             s1 == IF s.highlight_start <= s.token_id /\ s.token_id <= s.highlight_end
                      /\ Len(text) > 0
                   THEN [s EXCEPT !.highlight_tokens = Append(@, text)]
                   ELSE s
         IN  EmitLines(s1, split(content, <<>>), TRUE)
    ELSE s

RECURSIVE CloseAll(_)
\* the loop "while self._nested_depth > 0"
CloseAll(s) ==
    IF s.nested_depth > 0
    THEN CloseAll([super_endElement(s, "span") EXCEPT !.nested_depth = @ - 1])
    ELSE s

\* endElement counting every token as an open element
endElement_AlwaysDecrement(s, ev) ==
    IF s.in_window
    THEN IF ev.name = "ne" THEN _endCandidate(s)
         ELSE IF ev.name = "token"
         THEN LET s1 == IF s.nested_depth = 0 \/ s.user_cadidate_end = s.token_id
                        THEN [super_endElement(s, "span") EXCEPT !.nested_depth = @ - 1,
                                                                 !.user_cadidate_end = -1]
                        ELSE s
              IN  IF s1.token_id = s1.window_end
                  THEN LET s2 == CloseAll(s1)
                           s3 == [s2 EXCEPT !.in_window = FALSE, !.last_sentence = TRUE]
                       IN  super_startElement(s3, "span", <<"small", "fadeout">>, "", NoAttr, NoAttr)
                  ELSE s1
         ELSE s
    ELSE IF s.last_sentence /\ ev.name = "sentence"
    THEN [super_endElement(s, "span") EXCEPT !.last_sentence = FALSE]
    ELSE s

\* endElement opening the fade wrapper without closing what is open
endElement_FadeWithoutClosing(s, ev) ==
    IF s.in_window
    THEN IF ev.name = "ne" THEN _endCandidate(s)
         ELSE IF ev.name = "token"
         THEN LET s1 == IF s.nested_depth = 0 THEN super_endElement(s, "span")
                        ELSE IF s.user_cadidate_end = s.token_id
                        THEN [super_endElement(s, "span") EXCEPT !.nested_depth = @ - 1,
                                                                 !.user_cadidate_end = -1]
                        ELSE s
              IN  IF s1.token_id = s1.window_end
                  THEN LET s2 == s1
                           s3 == [s2 EXCEPT !.in_window = FALSE, !.last_sentence = TRUE]
                       IN  super_startElement(s3, "span", <<"small", "fadeout">>, "", NoAttr, NoAttr)
                  ELSE s1
         ELSE s
    ELSE IF s.last_sentence /\ ev.name = "sentence"
    THEN [super_endElement(s, "span") EXCEPT !.last_sentence = FALSE]
    ELSE s

\* endElement closing a token run without resetting open_until
endElement_KeepOpenUntil(s, ev) ==
    IF s.in_window
    THEN IF ev.name = "ne" THEN _endCandidate(s)
         ELSE IF ev.name = "token"
         THEN LET s1 == IF s.nested_depth = 0 THEN super_endElement(s, "span")
                        ELSE IF s.user_cadidate_end = s.token_id
                        THEN [super_endElement(s, "span") EXCEPT !.nested_depth = @ - 1]
                        ELSE s
              IN  IF s1.token_id = s1.window_end
                  THEN LET s2 == CloseAll(s1)
                           s3 == [s2 EXCEPT !.in_window = FALSE, !.last_sentence = TRUE]
                       IN  super_startElement(s3, "span", <<"small", "fadeout">>, "", NoAttr, NoAttr)
                  ELSE s1
         ELSE s
    ELSE IF s.last_sentence /\ ev.name = "sentence"
    THEN [super_endElement(s, "span") EXCEPT !.last_sentence = FALSE]
    ELSE s

endElement(s, ev) ==
    IF s.in_window
    THEN IF ev.name = "ne" THEN _endCandidate(s)
         ELSE IF ev.name = "token"
         THEN LET s1 == IF s.nested_depth = 0 THEN super_endElement(s, "span")
                        ELSE IF s.user_cadidate_end = s.token_id
                        THEN [super_endElement(s, "span") EXCEPT !.nested_depth = @ - 1,
                                                                 !.user_cadidate_end = -1]
                        ELSE s
              IN  IF s1.token_id = s1.window_end
                  THEN LET s2 == CloseAll(s1)
                           s3 == [s2 EXCEPT !.in_window = FALSE, !.last_sentence = TRUE]
                       IN  super_startElement(s3, "span", <<"small", "fadeout">>, "", NoAttr, NoAttr)
                  ELSE s1
         ELSE s
    ELSE IF s.last_sentence /\ ev.name = "sentence"
    THEN [super_endElement(s, "span") EXCEPT !.last_sentence = FALSE]
    ELSE s

(***************************************************************************)
(* show_candidate and the run of the parser over the recognized file.      *)
(***************************************************************************)
\* the parser calls the handler of one event
Dispatch(s, ev) ==
    IF ev.kind = "start" THEN startElement(s, ev)
    ELSE IF ev.kind = "chars" THEN characters(s, ev.content)
    ELSE endElement(s, ev)

RECURSIVE Parse(_, _)
\* sax.parse over a whole stream: stops at the first exception
Parse(s, ev) ==
    IF ev = <<>> \/ s.err # "none" THEN s ELSE Parse(Dispatch(s, Head(ev)), Tail(ev))

\* what show_candidate hands to the template as context_html, nothing after an exception
ContextHtml(s) == IF s.err = "none" THEN s.out ELSE <<>>

NE_CODES ==
    [c \in {"ah", "at", "az", "gc", "gh", "gl", "gq", "gr", "gs", "gt", "gu", "g_",
            "ia", "ic", "if", "io", "i_", "me", "mi", "mn", "ms", "na", "nb", "nc",
            "ni", "no", "ns", "n_", "oa", "oe", "om", "op", "or", "o_", "pc", "pd",
            "pf", "pm", "pp", "ps", "p_", "td", "tf", "th", "tm", "ty"} |->
        CASE c = "pf" -> "first names"
          [] c = "ps" -> "surnames"
          [] c = "pm" -> "second names"
          [] OTHER -> c]

RECURSIVE join(_, _)
\* sep.join(parts) on strings kept as sequences of characters
join(sep, parts) ==
    IF parts = <<>> THEN <<>>
    ELSE IF Len(parts) = 1 THEN parts[1]
    ELSE parts[1] \o sep \o join(sep, Tail(parts))

\* the keyword arguments of render_template at the end of show_candidate
Rendered(s, ref_start, ref_end) ==
    [status |-> "ok",
     context_html |-> s.out,
     ne_type_str |-> IF s.entity_type \in DOMAIN NE_CODES THEN NE_CODES[s.entity_type]
                     ELSE IF s.entity_type # None THEN s.entity_type ELSE "",
     ne_type_code |-> IF s.entity_type # None THEN s.entity_type ELSE "",
     token_str |-> join(<<" ">>, s.highlight_tokens),
     token_code |-> s.highlight_tokens,
     ref_start |-> ref_start,
     ref_end |-> ref_end]

\* an exception of a handler leaves sax.parse and show_candidate: no template is rendered
Failed(exc, ref_start, ref_end) ==
    [status |-> exc, context_html |-> <<>>, ne_type_str |-> "", ne_type_code |-> "",
     token_str |-> <<>>, token_code |-> <<>>, ref_start |-> ref_start, ref_end |-> ref_end]

Pending(ref_start, ref_end) ==
    [status |-> "pending", context_html |-> <<>>, ne_type_str |-> "", ne_type_code |-> "",
     token_str |-> <<>>, token_code |-> <<>>, ref_start |-> ref_start, ref_end |-> ref_end]

\* the margin show_candidate writes into its call of RecognizedTagFilter
ProgramMargin == 100

\* the window laid around the end of the span
NewFilter_AroundEnd(ref_start, ref_end, rows, margin) ==
    RecognizedTagFilter(ref_start, ref_end, ref_start - margin, ref_end + margin, rows)

\* the filter show_candidate builds for the span (ref_start, ref_end)
NewFilter(ref_start, ref_end, rows, margin) ==
    RecognizedTagFilter(ref_start, ref_end, ref_start - margin, ref_start + margin, rows)

\* the bounds of the query of _get_decisions in that filter
WindowStartOf(ref_start, margin) == IF ref_start - margin > 0 THEN ref_start - margin ELSE 0
WindowEndOf(ref_start, margin) == ref_start + margin

RECURSIVE SortedSeqs(_)
\* every order in which the store may return a set of rows under ORDER BY ref_start
SortedSeqs(rows) ==
    IF rows = {} THEN {<<>>}
    ELSE LET low == {r \in rows : \A q \in rows : r.ref_start <= q.ref_start}
         IN  UNION {{<<r>> \o rest : rest \in SortedSeqs(rows \ {r})} : r \in low}

\* the results the query of _get_decisions can have on a store
Query(rows, window_start, window_end) ==
    SortedSeqs({r \in rows : window_start <= r.ref_start /\ r.ref_start <= window_end})

(***************************************************************************)
(* Inputs of a render: the recognized file, the span and the store.        *)
(***************************************************************************)
TokenIds(ev) == {ev[i].id : i \in {j \in 1..Len(ev) : ev[j].kind = "start" /\ ev[j].name = "token"}}

NeSpans(ev) ==
    {<<ev[i].start, ev[i].end>> : i \in {j \in 1..Len(ev) : ev[j].kind = "start" /\ ev[j].name = "ne"}}

RECURSIVE TextOf(_)
\* the literal characters of the document
TextOf(ev) ==
    IF ev = <<>> THEN <<>>
    ELSE (IF Head(ev).kind = "chars" THEN Head(ev).content ELSE <<>>) \o TextOf(Tail(ev))

\* spans a user can select (first token, last token) and the spans of the candidates,
\* and one span that starts where no token starts
FocusSpans(ev) ==
    {<<a, b>> \in TokenIds(ev) \X TokenIds(ev) : a <= b}
    \cup NeSpans(ev)
    \cup {<<Len(TextOf(ev)), Len(TextOf(ev))>>}

Decisions == {PUBLIC, SECRET}

\* stores of at most one decided row, on a user span or on a candidate
Stores(ev) ==
    {{}} \cup {{Row(sp[1], sp[2], d)} : sp \in FocusSpans(ev), d \in Decisions}

VARIABLES stream, pos, self, pc, phase, response

vars == <<stream, pos, self, pc, phase, response>>

PhaseAfter(s) ==
    IF s.in_window THEN "in-window"
    ELSE IF s.last_sentence THEN "fade-tail"
    ELSE IF phase = "before-window" THEN "before-window"
    ELSE "done"

InitWith(evs, margin) ==
    /\ stream \in evs
    /\ \E span \in FocusSpans(stream), store \in Stores(stream) :
         \E rows \in Query(store, WindowStartOf(span[1], margin), WindowEndOf(span[1], margin)) :
            /\ self = NewFilter(span[1], span[2], rows, margin)
            /\ response = Pending(span[1], span[2])
    /\ pos = 1
    /\ pc = "parse"
    /\ phase = "before-window"

Init == InitWith({Events(sk) : sk \in Skeletons}, Margin)

\* the state after a handler returned s or raised
Handled(s) ==
    /\ self' = s
    /\ phase' = PhaseAfter(s)
    /\ UNCHANGED stream
    /\ IF s.err = "none"
       THEN pos' = pos + 1 /\ UNCHANGED <<pc, response>>
       ELSE /\ pc' = "failed"
            /\ response' = Failed(s.err, response.ref_start, response.ref_end)
            /\ UNCHANGED pos

Event == stream[pos]

StartElement ==
    /\ pc = "parse" /\ pos <= Len(stream) /\ Event.kind = "start"
    /\ Handled(startElement(self, Event))

Characters ==
    /\ pc = "parse" /\ pos <= Len(stream) /\ Event.kind = "chars"
    /\ Handled(characters(self, Event.content))

EndElement ==
    /\ pc = "parse" /\ pos <= Len(stream) /\ Event.kind = "end"
    /\ Handled(endElement(self, Event))

\* sax.parse returns and show_candidate renders the template
EndDocument ==
    /\ pc = "parse" /\ pos > Len(stream)
    /\ pc' = "done"
    /\ response' = Rendered(self, response.ref_start, response.ref_end)
    /\ UNCHANGED <<stream, pos, self, phase>>

Next == StartElement \/ Characters \/ EndElement \/ EndDocument

Spec == Init /\ [][Next]_vars

\* the document "Anna visited": a candidate around the first token, then a second token
ScenarioSkeleton == <<"(", "[", "tAnna", "]", "tVisited", ")">>

InitScenario == InitWith({Events(ScenarioSkeleton)}, ProgramMargin)

SpecScenario == InitScenario /\ [][Next]_vars

(***************************************************************************)
(* Properties.                                                             *)
(***************************************************************************)
CountOf(out, kind, name) ==
    Cardinality({i \in 1..Len(out) : out[i].kind = kind /\ out[i].name = name})

SpanOpens == CountOf(self.out, "start", "span")
SpanCloses == CountOf(self.out, "end", "span")

\* C1: at the end of the stream as many span elements were closed as were opened
C1_Balance == pc = "done" => SpanOpens = SpanCloses

IsCandidateElement(o) ==
    o.kind = "start" /\ o.name = "span" /\ o.class # <<>> /\ o.class[1] = "candidate"

ScenarioCase ==
    /\ stream = Events(ScenarioSkeleton)
    /\ self.highlight_start = 0 /\ self.highlight_end = 4
    /\ self.annotations[1] = <<<<4, PUBLIC>>>>

\* C2: the render of "Anna visited" with focus (0,4) and a public decision on (0,4)
\* has one candidate element, candidate-public and highlighted, around the text
\* "Anna", the entity type "pf" and the highlighted text ["Anna"]
C2_Scenario ==
    (ScenarioCase /\ pc # "parse") =>
        /\ response.status = "ok"
        /\ Cardinality({i \in 1..Len(response.context_html) :
                           IsCandidateElement(response.context_html[i])}) = 1
        /\ response.context_html[1] =
               OutEv("start", "span", <<"candidate", "candidate-public", "highlight">>,
                     "onTokenIntervalClick", 0, 4, <<>>)
        /\ response.context_html[2] =
               OutEv("chars", "", <<>>, "", NoAttr, NoAttr, <<"A", "n", "n", "a">>)
        /\ response.context_html[3] = OutEv("end", "span", <<>>, "", NoAttr, NoAttr, <<>>)
        /\ response.ne_type_code = "pf"
        /\ response.ne_type_str = "first names"
        /\ response.token_code = << <<"A", "n", "n", "a">> >>

C2_Witness == ScenarioCase /\ pc = "done"

\* C3: a span that starts at no token of the stream ends the render with a
\* focus-not-found error and without a fragment
C3_FocusNotFound ==
    (pc # "parse" /\ self.highlight_start \notin TokenIds(stream)) =>
        (response.status = "FocusNotFoundError" /\ response.context_html = <<>>)

\* C4: every index used on the decision table lies inside the table, that is at a
\* position between window_start and window_end
C4_LookupsInWindow ==
    \A idx \in self.lookups : 0 <= idx /\ idx <= self.window_end - self.window_start

\* C5: the nesting depth is never negative
C5_DepthNonNegative == self.nested_depth >= 0

C5_Witness ==
    /\ pos > 1 /\ stream[pos - 1].kind = "end" /\ stream[pos - 1].name = "ne"
    /\ self.in_window /\ self.nested_depth = 0

\* C6: whenever the in-window flag changes, the nesting depth is 0
C6_DepthZeroAtTransitions ==
    [][self.in_window # self'.in_window => self'.nested_depth = 0]_vars

Max0(n) == IF n > 0 THEN n ELSE 0

\* C7 as stated: the window reaches from focus_start - margin to focus_end + margin
\* and contains the focus span
C7_WindowAroundSpan ==
    /\ self.window_start = Max0(self.highlight_start - Margin)
    /\ self.window_end = self.highlight_end + Margin
    /\ self.window_start <= self.window_end
    /\ self.window_start <= self.highlight_start /\ self.highlight_end <= self.window_end

\* C7 as amended: the window reaches from focus_start - margin to focus_start + margin
\* and contains the start of the focus span
C7_WindowAroundStart ==
    /\ self.window_start = Max0(self.highlight_start - Margin)
    /\ self.window_end = self.highlight_start + Margin
    /\ self.window_start <= self.window_end
    /\ self.window_start <= self.highlight_start /\ self.highlight_start <= self.window_end
    /\ Len(self.annotations) = self.window_end - self.window_start + 1

C7_Witness == self.highlight_end > self.window_end /\ pos > 1

\* C8: after done nothing more is emitted and the in-window flag stays off
C8_SilentAfterDone ==
    [][phase = "done" => (self'.out = self.out /\ ~self'.in_window /\ ~self'.last_sentence)]_vars

C8_Witness ==
    /\ phase = "done" /\ pos > 1
    /\ stream[pos - 1].kind = "end" /\ stream[pos - 1].name = "token"

\* the filter as show_candidate built it for this render
Fresh(s) ==
    [s EXCEPT !.in_window = FALSE, !.highlight_tokens = <<>>, !.entity_type = None,
              !.user_cadidate_end = -1, !.token_id = -1, !.nested_depth = 0,
              !.last_sentence = FALSE, !.out = <<>>, !.err = "none", !.lookups = {}]

NewToken(ev) ==
    <<CharsEv(GapText), StartEv("token", Len(TextOf(ev)) + Len(GapText), NoAttr, NoAttr, ""),
      CharsEv(<<"a">>), EndEv("token")>>

\* the document with one more token in its last sentence
LongerSentence(ev) == SubSeq(ev, 1, Len(ev) - 1) \o NewToken(ev) \o <<EndEv("sentence")>>

\* the document with one more sentence
OneMoreSentence(ev) ==
    ev \o <<CharsEv(SentenceGapText), StartEv("sentence", NoAttr, NoAttr, NoAttr, ""),
            StartEv("token", Len(TextOf(ev)) + Len(SentenceGapText), NoAttr, NoAttr, ""),
            CharsEv(<<"a">>), EndEv("token"), EndEv("sentence")>>

Extensions(ev) == {LongerSentence(ev), OneMoreSentence(ev)}

LastTokenId(ev) == IF TokenIds(ev) = {} THEN -1 ELSE CHOOSE t \in TokenIds(ev) : \A u \in TokenIds(ev) : u <= t

\* the events before the last sentence of the document
BeforeLastSentence(ev) ==
    LET starts == {i \in 1..Len(ev) : ev[i].kind = "start" /\ ev[i].name = "sentence"}
        last == CHOOSE i \in starts : \A j \in starts : j <= i
    IN  SubSeq(ev, 1, last - 1)

TextAt(text, a, b) ==
    LET last == IF b + 1 < Len(text) THEN b + 1 ELSE Len(text)
    IN  IF a + 1 > last THEN <<>> ELSE SubSeq(text, a + 1, last)

RECURSIVE Concat(_)
Concat(parts) == IF parts = <<>> THEN <<>> ELSE Head(parts) \o Concat(Tail(parts))

\* C10 as stated: the collected fragments, concatenated, are the characters of the
\* document at the offsets focus_start..focus_end
C10_OffsetFidelity ==
    pc = "done" =>
        Concat(response.token_code)
            = TextAt(TextOf(stream), self.highlight_start, self.highlight_end)

AllSpace(t) == \A i \in 1..Len(t) : IsSpace(t[i])

\* t is content without the whitespace at its two ends
Trimmed(t, content) ==
    /\ t # <<>> /\ ~IsSpace(t[1]) /\ ~IsSpace(t[Len(t)])
    /\ \E i \in 1..Len(content) :
          /\ i + Len(t) - 1 <= Len(content)
          /\ t = SubSeq(content, i, i + Len(t) - 1)
          /\ AllSpace(SubSeq(content, 1, i - 1))
          /\ AllSpace(SubSeq(content, i + Len(t), Len(content)))

\* the filter is about to handle a text event that is shown and belongs to a token
\* with focus_start <= id <= focus_end
CollectingText ==
    /\ pc = "parse" /\ pos <= Len(stream) /\ stream[pos].kind = "chars"
    /\ self.in_window \/ self.last_sentence
    /\ self.highlight_start <= self.token_id /\ self.token_id <= self.highlight_end

\* C10 as amended: the collector grows only by the trimmed text of a shown text event
\* of a token with focus_start <= id <= focus_end, and every such text that is
\* not all whitespace is collected; whitespace between tokens is dropped
C10_TrimmedFragments ==
    [][IF CollectingText /\ ~AllSpace(stream[pos].content)
       THEN /\ Len(self'.highlight_tokens) = Len(self.highlight_tokens) + 1
            /\ SubSeq(self'.highlight_tokens, 1, Len(self.highlight_tokens)) = self.highlight_tokens
            /\ Trimmed(self'.highlight_tokens[Len(self'.highlight_tokens)], stream[pos].content)
       ELSE self'.highlight_tokens = self.highlight_tokens]_vars

C10_Witness ==
    /\ Len(self.highlight_tokens) >= 2
    /\ pos > 1 /\ stream[pos - 1].kind = "chars" /\ AllSpace(stream[pos - 1].content)
    /\ self.highlight_start <= self.token_id /\ self.token_id <= self.highlight_end
(***************************************************************************)
(* Renders over stores of two decided rows: a user span and a candidate,   *)
(* two user spans, rows that share their start.                            *)
(***************************************************************************)
\* spans that carry a row: user spans (first token, last token) and candidates
RowSpans(ev) == {<<a, b>> \in TokenIds(ev) \X TokenIds(ev) : a <= b} \cup NeSpans(ev)

\* stores of two rows on different spans, one decided public and one secret
Stores2(ev) ==
    {{Row(x[1][1], x[1][2], PUBLIC), Row(x[2][1], x[2][2], SECRET)} :
        x \in {y \in RowSpans(ev) \X RowSpans(ev) : y[1] # y[2]}}

InitStores ==
    /\ stream \in {Events(sk) : sk \in Skeletons}
    /\ \E span \in FocusSpans(stream), store \in Stores2(stream) :
         \E rows \in Query(store, WindowStartOf(span[1], Margin), WindowEndOf(span[1], Margin)) :
            /\ self = NewFilter(span[1], span[2], rows, Margin)
            /\ response = Pending(span[1], span[2])
    /\ pos = 1
    /\ pc = "parse"
    /\ phase = "before-window"

SpecStores == InitStores /\ [][Next]_vars
\* the items of the decision table at the offset off, none outside the window
DecisionsAt(s, off) ==
    IF s.window_start <= off /\ off <= s.window_end
    THEN s.annotations[off - s.window_start + 1] ELSE <<>>

HasDecision(s, off, decision) ==
    \E k \in 1..Len(DecisionsAt(s, off)) : DecisionsAt(s, off)[k][2] = decision

\* the stream has a candidate on exactly the focus span, decided public, and a token
\* inside it with a secret decision keyed at its offset
PrecedenceCase ==
    /\ <<self.highlight_start, self.highlight_end>> \in NeSpans(stream)
    /\ DictGet(DecisionsAt(self, self.highlight_start),
               self.highlight_end - self.highlight_start) = PUBLIC
    /\ \E t \in TokenIds(stream) :
          /\ self.highlight_start <= t /\ t < self.highlight_end
          /\ HasDecision(self, t, SECRET)

IsTokenElement(o) ==
    o.kind = "start" /\ o.name = "span" /\ o.class # <<>> /\ o.class[1] = "token"

\* C11: a token start while an element is open (depth > 0) emits nothing and leaves
\* depth and open_until as they are; under a public candidate on exactly the focus
\* span no token element is emitted for an offset inside the candidate, the
\* candidate's own element is candidate-public and highlighted
C11_CandidatePrecedence ==
    [][(pc = "parse" /\ pos <= Len(stream)) =>
         /\ (Event.kind = "start" /\ Event.name = "token" /\ self.nested_depth > 0) =>
               /\ self'.out = self.out
               /\ self'.nested_depth = self.nested_depth
               /\ self'.user_cadidate_end = self.user_cadidate_end
         /\ PrecedenceCase =>
               \A i \in 1..Len(self'.out) :
                  LET o == self'.out[i]
                  IN  /\ IsTokenElement(o) =>
                            ~(self.highlight_start <= o.a /\ o.a < self.highlight_end)
                      /\ (IsCandidateElement(o) /\ o.a = self.highlight_start
                             /\ o.b = self.highlight_end) =>
                            o.class = <<"candidate", "candidate-public", "highlight">>]_vars

C11_Witness ==
    /\ PrecedenceCase /\ pc = "parse" /\ pos > 1
    /\ stream[pos - 1].kind = "start" /\ stream[pos - 1].name = "token"
    /\ HasDecision(self, stream[pos - 1].id, SECRET)
    /\ self.in_window /\ self.nested_depth > 0
    /\ \E i \in 1..Len(self.out) :
          self.out[i].class = <<"candidate", "candidate-public", "highlight">>

\* the rows the query of _get_decisions returned for this render
StoredRows(s) ==
    UNION {{Row(s.window_start + i - 1, s.window_start + i - 1 + s.annotations[i][k][1],
                s.annotations[i][k][2]) : k \in 1..Len(s.annotations[i])}
           : i \in 1..Len(s.annotations)}

\* one more render of the same stream and span, the query returning rows
Rerender(s, rows) ==
    Parse([Fresh(s) EXCEPT !.annotations = _get_decisions(rows, s.window_start, s.window_end)],
          stream)

\* what show_candidate answers after the parse ended in s
Outcome(s) ==
    IF s.err = "none" THEN Rendered(s, s.highlight_start, s.highlight_end)
    ELSE Failed(s.err, s.highlight_start, s.highlight_end)

\* C12: a second render of the same stream and span over the same store gives the
\* same output, highlighted text and entity type, in whatever order the store
\* returns rows that share their start
C12_Idempotent ==
    pc # "parse" =>
        \A rows \in SortedSeqs(StoredRows(self)) : Outcome(Rerender(self, rows)) = response
\* the types of the candidates of the stream that lie on exactly the focus span
ExactMatchTypes ==
    {stream[i].type : i \in {j \in 1..Len(stream) :
        /\ stream[j].kind = "start" /\ stream[j].name = "ne"
        /\ stream[j].start = self.highlight_start /\ stream[j].end = self.highlight_end}}

\* a candidate on exactly the focus span was handled inside the window: its element
\* is in the output
ExactMatchShown ==
    \E i \in 1..Len(self.out) :
        /\ IsCandidateElement(self.out[i])
        /\ self.out[i].a = self.highlight_start /\ self.out[i].b = self.highlight_end

\* C13: the entity type is set exactly when a candidate on exactly the focus span
\* was handled inside the window, it is then the type of such a candidate, and it
\* stays None (an empty code in the answer) otherwise
C13_ExactMatchType ==
    /\ (self.entity_type # None) <=> ExactMatchShown
    /\ self.entity_type # None => self.entity_type \in ExactMatchTypes
    /\ pc = "done" =>
          response.ne_type_code = (IF ExactMatchShown THEN self.entity_type ELSE "")

C13_Witness ==
    /\ pc = "done" /\ response.ne_type_code = "pf"
    /\ self.highlight_end > self.highlight_start
IsFadeElement(o) == o.kind = "start" /\ o.name = "span" /\ o.class = <<"small", "fadeout">>

FadeOpens(out) == Cardinality({i \in 1..Len(out) : IsFadeElement(out[i])})

\* the filter is about to handle, in the window, the end of the token with id window_end
AtWindowEnd ==
    /\ Event.kind = "end" /\ Event.name = "token"
    /\ self.in_window /\ self.token_id = self.window_end

\* C14: the end of the token with id window_end, handled in the window, closes every
\* open element (depth 0, one more span opened than closed: the fade wrapper), clears
\* in-window and opens the fade wrapper; no other step opens one, so there is at most
\* one; in the fade tail no span is closed before the end of the sentence, which
\* closes the wrapper and leaves the output balanced
C14_FadeTransition ==
    [][(pc = "parse" /\ pos <= Len(stream)) =>
         /\ AtWindowEnd =>
               /\ self'.nested_depth = 0 /\ ~self'.in_window /\ self'.last_sentence
               /\ IsFadeElement(self'.out[Len(self'.out)])
               /\ FadeOpens(self'.out) = 1
               /\ CountOf(self'.out, "start", "span") = CountOf(self'.out, "end", "span") + 1
         /\ ~AtWindowEnd => FadeOpens(self'.out) = FadeOpens(self.out)
         /\ self.last_sentence =>
               IF Event.kind = "end" /\ Event.name = "sentence"
               THEN /\ self'.out = Append(self.out, OutEv("end", "span", <<>>, "", NoAttr, NoAttr, <<>>))
                    /\ ~self'.last_sentence /\ ~self'.in_window
                    /\ CountOf(self'.out, "start", "span") = CountOf(self'.out, "end", "span")
               ELSE /\ self'.last_sentence
                    /\ CountOf(self'.out, "end", "span") = CountOf(self.out, "end", "span")
                    /\ CountOf(self'.out, "start", "span") = CountOf(self.out, "start", "span")]_vars

\* the fade wrapper was opened after an open token run was closed by force, and the
\* tail goes on with another token
C14_Witness ==
    /\ phase = "fade-tail" /\ self.nested_depth = 0 /\ self.user_cadidate_end # -1
    /\ self.token_id > self.window_end
    /\ FadeOpens(self.out) = 1
HasHighlight(o) == \E k \in 1..Len(o.class) : o.class[k] = "highlight"

\* C15 as stated: a candidate element is marked highlight only when its start and end
\* are exactly the focus span
C15_HighlightOnlyExact ==
    \A i \in 1..Len(self.out) :
        (IsCandidateElement(self.out[i]) /\ HasHighlight(self.out[i])) =>
            (self.out[i].a = self.highlight_start /\ self.out[i].b = self.highlight_end)

\* C15 as amended: a candidate element is marked highlight exactly when the candidate
\* lies inside the focus span, focus_start <= start and end <= focus_end
C15_HighlightContained ==
    \A i \in 1..Len(self.out) :
        IsCandidateElement(self.out[i]) =>
            (HasHighlight(self.out[i]) <=>
                (self.highlight_start <= self.out[i].a /\ self.out[i].b <= self.highlight_end))

\* a highlighted candidate that starts where the focus span starts and ends before it
C15_Witness ==
    \E i \in 1..Len(self.out) :
        /\ IsCandidateElement(self.out[i]) /\ HasHighlight(self.out[i])
        /\ self.out[i].a = self.highlight_start /\ self.out[i].b < self.highlight_end
\* the filter is about to handle, in the window and at depth 0, a candidate that
\* starts with the focus span and ends before it
AtFixUp ==
    /\ Event.kind = "start" /\ Event.name = "ne" /\ self.in_window
    /\ self.nested_depth = 0
    /\ Event.start = self.highlight_start /\ Event.end < self.highlight_end

\* the output has the element the fix-up makes: a highlighted token element
\* directly followed by the element of a candidate with the same start
FixUpMade(out) ==
    \E i \in 1..(Len(out) - 1) :
        /\ IsTokenElement(out[i]) /\ HasHighlight(out[i])
        /\ IsCandidateElement(out[i + 1]) /\ out[i + 1].a = out[i].a

\* the fix-up opens a highlighted token element with open_until = focus_end and then
\* the candidate's element, depth 0 -> 2
FixUpOpens ==
    (pc = "parse" /\ pos <= Len(stream) /\ AtFixUp) =>
        /\ self'.out = self.out \o
              <<OutEv("start", "span", <<"token", "highlight">>, "onTokenIntervalClick",
                      self.highlight_start, self.highlight_end, <<>>),
                self'.out[Len(self'.out)]>>
        /\ IsCandidateElement(self'.out[Len(self'.out)])
        /\ self'.out[Len(self'.out)].a = Event.start /\ self'.out[Len(self'.out)].b = Event.end
        /\ self'.nested_depth = 2
        /\ self'.user_cadidate_end = self.highlight_end

\* C16: the fix-up opens the highlighted token element before the candidate's, and
\* at the end of the stream that element is not left open: as many spans were
\* closed as were opened
C16_FixUpClosed ==
    [][/\ FixUpOpens
       /\ (pc' = "done" /\ FixUpMade(self'.out)) =>
             CountOf(self'.out, "start", "span") = CountOf(self'.out, "end", "span")]_vars
\* the id of the first token that starts after position i of the stream
FirstTokenAfter(ev, i) ==
    LET later == {j \in (i + 1)..Len(ev) : ev[j].kind = "start" /\ ev[j].name = "token"}
    IN  ev[CHOOSE j \in later : \A k \in later : j <= k].id

AtSentenceStart ==
    pc = "parse" /\ pos <= Len(stream) /\ Event.kind = "start" /\ Event.name = "sentence"

\* C17: at a sentence start the filter is in the window afterwards exactly when the
\* id of the first token of the sentence lies in [window_start, window_end]; the
\* render of a span that starts at a token of the stream shows something
C17_WindowEntry ==
    [][/\ AtSentenceStart =>
             (self'.in_window <=>
                 (self.window_start <= FirstTokenAfter(stream, pos)
                    /\ FirstTokenAfter(stream, pos) <= self.window_end))
       /\ (pc' = "done" /\ self.highlight_start \in TokenIds(stream)) =>
             response'.context_html # <<>>]_vars
\* the filter is about to handle a token start in the window at depth 0
AtTokenStart ==
    /\ pc = "parse" /\ pos <= Len(stream)
    /\ Event.kind = "start" /\ Event.name = "token"
    /\ self.in_window /\ self.nested_depth = 0

\* the token is the focus start or has a public or secret decision keyed at its offset
TokenApplies ==
    \/ Event.id = self.highlight_start
    \/ HasDecision(self, Event.id, PUBLIC)
    \/ HasDecision(self, Event.id, SECRET)

\* C18 as stated: the token start opens one element and increments depth when the
\* token is the focus start or has a decision, and opens nothing otherwise
C18_OpensOnlyIfApplies ==
    [][AtTokenStart =>
         IF TokenApplies
         THEN Len(self'.out) = Len(self.out) + 1 /\ self'.nested_depth = self.nested_depth + 1
         ELSE self'.out = self.out /\ self'.nested_depth = self.nested_depth]_vars

\* C18 as amended: the token start always opens one token element unless the lookup
\* raises; depth is incremented, and the element carries the click handler of a
\* span, exactly when the token is the focus start or has a decision; a plain token
\* opens a plain token element and leaves depth alone
C18_AlwaysOpensToken ==
    [][AtTokenStart =>
         IF self'.err # "none"
         THEN /\ self'.out = self.out /\ ~TokenApplies
              /\ Event.id > self.window_end
         ELSE /\ Len(self'.out) = Len(self.out) + 1
              /\ SubSeq(self'.out, 1, Len(self.out)) = self.out
              /\ IsTokenElement(self'.out[Len(self'.out)])
              /\ self'.out[Len(self'.out)].a = Event.id
              /\ IF TokenApplies
                 THEN /\ self'.nested_depth = self.nested_depth + 1
                      /\ self'.out[Len(self'.out)].fn = "onTokenIntervalClick"
                      /\ self'.out[Len(self'.out)].class # <<"token">>
                      /\ self'.user_cadidate_end # -1
                 ELSE /\ self'.nested_depth = self.nested_depth
                      /\ self'.out[Len(self'.out)] =
                            OutEv("start", "span", <<"token">>, "onTokenClick", Event.id,
                                  NoAttr, <<>>)
                      /\ self'.user_cadidate_end = -1]_vars

\* a plain token has just opened its element at depth 0
C18_Witness ==
    /\ pc = "parse" /\ pos > 1
    /\ stream[pos - 1].kind = "start" /\ stream[pos - 1].name = "token"
    /\ self.in_window /\ self.nested_depth = 0 /\ self.out # <<>>
    /\ self.out[Len(self.out)] =
          OutEv("start", "span", <<"token">>, "onTokenClick", self.token_id, NoAttr, <<>>)
(***************************************************************************)
(* Renders of one sentence with a token and a text after it: the text is   *)
(* any string of letters, spaces and line breaks of at most MaxText        *)
(* characters, as the white space and line breaks between the elements of  *)
(* the recognized file.                                                    *)
(***************************************************************************)
MaxText == 3

RECURSIVE StringsOf(_)
\* the strings of exactly n characters
StringsOf(n) ==
    IF n = 0 THEN {<<>>}
    ELSE {Append(t, ch) : t \in StringsOf(n - 1), ch \in {"a", " ", "\n"}}

Texts == UNION {StringsOf(n) : n \in 1..MaxText}

TextEvents(content) ==
    <<StartEv("sentence", NoAttr, NoAttr, NoAttr, ""),
      StartEv("token", 0, NoAttr, NoAttr, ""), CharsEv(<<"a">>), EndEv("token"),
      CharsEv(content), EndEv("sentence")>>

InitText ==
    /\ stream \in {TextEvents(content) : content \in Texts}
    /\ \E span \in {<<0, 0>>, <<1, 1>>} :
          /\ self = NewFilter(span[1], span[2], <<>>, Margin)
          /\ response = Pending(span[1], span[2])
    /\ pos = 1
    /\ pc = "parse"
    /\ phase = "before-window"

SpecText == InitText /\ [][Next]_vars

RECURSIVE InPlace(_, _)
\* content with a line-break marker at the place of every line break; cur is the
\* text read since the last one
InPlace(content, cur) ==
    LET text == IF cur = <<>> THEN <<>>
                ELSE <<OutEv("chars", "", <<>>, "", NoAttr, NoAttr, cur)>>
    IN  IF content = <<>> THEN text
        ELSE IF Head(content) = "\n"
        THEN text \o <<OutEv("start", "br/", <<>>, "", NoAttr, NoAttr, <<>>)>>
                  \o InPlace(Tail(content), <<>>)
        ELSE InPlace(Tail(content), Append(cur, Head(content)))

\* C19: a text event that is shown adds to the output its text with one line-break
\* marker at the place of every line break: text before, marker, text after
C19_LineBreaksInPlace ==
    [][(pc = "parse" /\ pos <= Len(stream) /\ Event.kind = "chars"
          /\ (self.in_window \/ self.last_sentence)) =>
         self'.out = self.out \o InPlace(Event.content, <<>>)]_vars
(***************************************************************************)
(* FeatureParser of ner-eval/feature_digger.py, the content handler that   *)
(* writes the (start, end, label) rows and the plain text of a recognized  *)
(* file.  In SpecFeatures `stream` is the file, `self` the FeatureParser   *)
(* with the rows and the text its two callbacks have written so far, and   *)
(* `response` the two files once the parser has returned.                  *)
(*                                                                         *)
(* A file is a well-nested sequence of at most MaxSyms symbols: a text     *)
(* event of one character, the start of an ne with a status and a label,   *)
(* the end of an ne.                                                       *)
(***************************************************************************)
MaxSyms == 5

Confirmed == <<"c", "o", "n", "f", "i", "r", "m", "e", "d">>

Statuses == {Confirmed, Confirmed \o <<"_", "r", "u", "l", "e">>, <<"n", "e", "w">>}

Labels == {"A", "B"}

NeOpeners == {<<"[", status, label>> : status \in Statuses, label \in Labels}

RECURSIVE FeatureSeqs(_)
\* the well-nested sequences of exactly n symbols
FeatureSeqs(n) ==
    IF n = 0 THEN {<<>>}
    ELSE {<<<<"x">>>> \o r : r \in FeatureSeqs(n - 1)}
         \cup UNION {{<<o>> \o inner \o <<<<"]">>>> \o r :
                         o \in NeOpeners, inner \in FeatureSeqs(k), r \in FeatureSeqs(n - 2 - k)}
                     : k \in 0..(n - 2)}

FeatureEv(kind, name, status, label, content) ==
    [kind |-> kind, name |-> name, status |-> status, label |-> label, content |-> content]

FeatureEvents(sk) ==
    [i \in 1..Len(sk) |->
        IF sk[i][1] = "x" THEN FeatureEv("chars", "", <<>>, "", <<"a">>)
        ELSE IF sk[i][1] = "[" THEN FeatureEv("start", "ne", sk[i][2], sk[i][3], <<>>)
        ELSE FeatureEv("end", "ne", <<>>, "", <<>>)]

\* str.startswith
startswith(str, prefix) ==
    Len(str) >= Len(prefix) /\ SubSeq(str, 1, Len(prefix)) = prefix

\* the namedtuple Feature(start, label); NoFeature stands for None in _current
Feature(start, label) == <<start, label>>

NoFeature == <<>>

FeatureParser ==
    [possition |-> 0, current |-> NoFeature, features |-> <<>>, txt |-> <<>>]

\* feature_callback of __main__: one row of the csv file
feature_callback(s, start, end, label) ==
    [s EXCEPT !.features = Append(@, <<start, end, IF label = None THEN "" ELSE label>>)]

\* txt_callback of __main__
txt_callback(s, text) == [s EXCEPT !.txt = @ \o text]

FeatureParser_startElement(s, ev) ==
    IF ev.name = "ne" /\ startswith(ev.status, Confirmed)
    THEN [s EXCEPT !.current = Feature(s.possition, ev.label)]
    ELSE s

FeatureParser_characters(s, content) ==
    txt_callback([s EXCEPT !.possition = @ + Len(content)], content)

FeatureParser_endElement(s, ev) ==
    IF ev.name = "ne" /\ s.current # NoFeature
    THEN IF s.possition > s.current[1]
         THEN [feature_callback(s, s.current[1], s.possition, s.current[2])
                  EXCEPT !.current = NoFeature]
         ELSE s
    ELSE s

InitFeatures ==
    /\ stream \in {FeatureEvents(sk) : sk \in UNION {FeatureSeqs(n) : n \in 1..MaxSyms}}
    /\ self = FeatureParser
    /\ response = [features |-> <<>>, txt |-> <<>>]
    /\ pos = 1
    /\ pc = "parse"
    /\ phase = "none"

FeatureStep(s) ==
    /\ self' = s
    /\ pos' = pos + 1
    /\ UNCHANGED <<stream, pc, phase, response>>

FeatureStartElement ==
    /\ pc = "parse" /\ pos <= Len(stream) /\ Event.kind = "start"
    /\ FeatureStep(FeatureParser_startElement(self, Event))

FeatureCharacters ==
    /\ pc = "parse" /\ pos <= Len(stream) /\ Event.kind = "chars"
    /\ FeatureStep(FeatureParser_characters(self, Event.content))

FeatureEndElement ==
    /\ pc = "parse" /\ pos <= Len(stream) /\ Event.kind = "end"
    /\ FeatureStep(FeatureParser_endElement(self, Event))

\* parser.parse returns and the two files are closed
FeatureEndDocument ==
    /\ pc = "parse" /\ pos > Len(stream)
    /\ pc' = "done"
    /\ response' = [features |-> self.features, txt |-> self.txt]
    /\ UNCHANGED <<stream, pos, self, phase>>

NextFeatures ==
    FeatureStartElement \/ FeatureCharacters \/ FeatureEndElement \/ FeatureEndDocument

SpecFeatures == InitFeatures /\ [][NextFeatures]_vars
RECURSIVE TextLen(_)
\* the number of characters of the text events of ev
TextLen(ev) ==
    IF ev = <<>> THEN 0
    ELSE (IF Head(ev).kind = "chars" THEN Len(Head(ev).content) ELSE 0) + TextLen(Tail(ev))

RECURSIVE CloseOf(_, _, _)
\* the position of the end of the ne whose content starts at position i
CloseOf(ev, i, open) ==
    IF ev[i].kind = "end" /\ open = 1 THEN i
    ELSE CloseOf(ev, i + 1,
                 open + (IF ev[i].kind = "start" THEN 1 ELSE IF ev[i].kind = "end" THEN -1 ELSE 0))

\* the ne elements of the file with a status that starts with "confirmed" and a
\* content that is not empty, by the position of their start
ConfirmedNe(ev) ==
    {i \in 1..Len(ev) :
        /\ ev[i].kind = "start" /\ ev[i].name = "ne" /\ startswith(ev[i].status, Confirmed)
        /\ TextLen(SubSeq(ev, 1, i)) < TextLen(SubSeq(ev, 1, CloseOf(ev, i + 1, 1)))}

\* the row of the ne that starts at position i
RowOf(ev, i) ==
    <<TextLen(SubSeq(ev, 1, i)), TextLen(SubSeq(ev, 1, CloseOf(ev, i + 1, 1))), ev[i].label>>

\* C20: when the parser has returned, every row has start < end and is the row of a
\* confirmed ne with content, and every confirmed ne with content has exactly one row
C20_FeatureRows ==
    pc = "done" =>
        /\ \A k \in 1..Len(response.features) :
              /\ response.features[k][1] < response.features[k][2]
              /\ \E i \in ConfirmedNe(stream) : response.features[k] = RowOf(stream, i)
        /\ \E f \in [ConfirmedNe(stream) -> 1..Len(response.features)] :
              /\ \A i \in ConfirmedNe(stream) : response.features[f[i]] = RowOf(stream, i)
              /\ \A i, j \in ConfirmedNe(stream) : i # j => f[i] # f[j]
              /\ \A k \in 1..Len(response.features) : \E i \in ConfirmedNe(stream) : f[i] = k
(***************************************************************************)
(* The handler set of psan.annotate and the tables annotation and rule.    *)
(* In SpecSet `stream` is the recognized file of the document, `self` the  *)
(* database (the rows of annotation and of rule in the order of their      *)
(* insertion, and the background tasks queued), `pos` counts the           *)
(* submissions and `response` is the redirect of the last one.  At most    *)
(* MaxSets forms are submitted.                                            *)
(***************************************************************************)
MaxSets == 2

RULE == "RULE"
NESTED == "NESTED"

USER == "USER"
NAME_ENTRY == "NAME_ENTRY"

WORD_TYPE == "WORD_TYPE"
NE_TYPE == "NE_TYPE"

NoRule == 0

AnnotationRow(ref_start, ref_end, ref_type, decision, rule) ==
    [ref_start |-> ref_start, ref_end |-> ref_end, ref_type |-> ref_type,
     decision |-> decision, rule |-> rule]

\* the rows the recognition left in annotation: one undecided row for every candidate
RecognizedRows(ev) ==
    LET starts == {i \in 1..Len(ev) : ev[i].kind = "start" /\ ev[i].name = "ne"}
        spans == {<<ev[i].start, ev[i].end>> : i \in starts}
    IN  CHOOSE rows \in SortedSeqs({AnnotationRow(sp[1], sp[2], NAME_ENTRY, UNDECIDED, NoRule)
                                     : sp \in spans}) : TRUE

\* the fields of AnnotateForm that set reads, and the account of the session
Form(valid, button, ne_type, condition, ref_start, ref_end, admin) ==
    [valid |-> valid, button |-> button, ne_type |-> ne_type, condition |-> condition,
     ref_start |-> ref_start, ref_end |-> ref_end, admin |-> admin]

Buttons ==
    {"ctx_public", "ctx_secret", "lemma_public", "lemma_secret",
     "ne_type_public", "ne_type_secret"}

\* INSERT INTO rule ... ON CONFLICT(type, condition) DO UPDATE SET decision ... RETURNING id
UpsertRule(rules, type, condition, decision) ==
    IF \E i \in 1..Len(rules) : rules[i].type = type /\ rules[i].condition = condition
    THEN LET id == CHOOSE i \in 1..Len(rules) :
                       rules[i].type = type /\ rules[i].condition = condition
         IN  [rules |-> [rules EXCEPT ![id].decision = decision], id |-> id]
    ELSE [rules |-> Append(rules, [type |-> type, condition |-> condition,
                                   decision |-> decision]),
          id |-> Len(rules) + 1]

\* DELETE FROM annotation WHERE %s <= ref_start and ref_end <= %s and ref_type = %s
DeleteWithin(rows, ref_start, ref_end, ref_type) ==
    SelectSeq(rows, LAMBDA r : ~(ref_start <= r.ref_start /\ r.ref_end <= ref_end
                                   /\ r.ref_type = ref_type))

\* UPDATE annotation SET decision = %s WHERE %s <= ref_start and ref_end <= %s and ref_type = %s
UpdateWithin(rows, ref_start, ref_end, ref_type, decision) ==
    [i \in 1..Len(rows) |->
        IF ref_start <= rows[i].ref_start /\ rows[i].ref_end <= ref_end
           /\ rows[i].ref_type = ref_type
        THEN [rows[i] EXCEPT !.decision = decision] ELSE rows[i]]

\* UPDATE annotation SET decision = %s, rule = %s WHERE ref_start = %s and ref_end = %s
UpdateExact(rows, ref_start, ref_end, decision, rule) ==
    [i \in 1..Len(rows) |->
        IF rows[i].ref_start = ref_start /\ rows[i].ref_end = ref_end
        THEN [rows[i] EXCEPT !.decision = decision, !.rule = rule] ELSE rows[i]]

\* the handler set: the database after the submission and the redirect
set(db, form) ==
    IF ~form.valid THEN [db |-> db, redirect |-> "index"]
    ELSE LET decision0 == IF form.button \in {"ctx_public", "lemma_public", "ne_type_public"}
                          THEN PUBLIC ELSE SECRET
             rule == IF form.button \in {"lemma_public", "lemma_secret"} THEN WORD_TYPE
                     ELSE IF form.button \in {"ne_type_public", "ne_type_secret"} THEN NE_TYPE
                     ELSE None
             rule_condition == IF rule = WORD_TYPE THEN form.condition ELSE <<form.ne_type>>
             upsert == IF rule # None THEN UpsertRule(db.rule, rule, rule_condition, decision0)
                       ELSE [rules |-> db.rule, id |-> NoRule]
             decision == IF rule # None THEN RULE ELSE decision0
             rows == IF form.ne_type # ""
                     THEN UpdateExact(db.annotation, form.ref_start, form.ref_end,
                                      decision, upsert.id)
                     ELSE UpdateWithin(
                              Append(DeleteWithin(db.annotation, form.ref_start,
                                                  form.ref_end, USER),
                                     AnnotationRow(form.ref_start, form.ref_end, USER,
                                                   decision, upsert.id)),
                              form.ref_start, form.ref_end, NAME_ENTRY, NESTED)
         IN  [db |-> [annotation |-> rows, rule |-> upsert.rules,
                      queued |-> db.queued + (IF rule # None THEN 1 ELSE 0)],
              redirect |-> IF form.admin THEN "show" ELSE "index"]

\* the forms a session can submit on the document: a span of tokens or of a
\* candidate, with or without the entity type of a candidate
Forms(ev) ==
    {Form(TRUE, button, ne_type, <<"a">>, sp[1], sp[2], admin) :
        button \in Buttons, ne_type \in {"", "pf"}, sp \in RowSpans(ev),
        admin \in BOOLEAN}
    \cup {Form(FALSE, "ctx_public", "", <<>>, 0, 0, FALSE)}

InitSet ==
    /\ stream = Events(ScenarioSkeleton)
    /\ self = [annotation |-> RecognizedRows(stream), rule |-> <<>>, queued |-> 0]
    /\ response = "none"
    /\ pos = 0
    /\ pc = "serve"
    /\ phase = "none"

Set ==
    /\ pc = "serve" /\ pos < MaxSets
    /\ \E form \in Forms(stream) :
          LET after == set(self, form)
          IN  /\ self' = after.db
              /\ response' = after.redirect
    /\ pos' = pos + 1
    /\ UNCHANGED <<stream, pc, phase>>

NextSet == Set

SpecSet == InitSet /\ [][NextSet]_vars

\* C21: the table annotation holds at most one row for a span (ref_start, ref_end)
C21_OneDecisionPerSpan ==
    \A i, j \in 1..Len(self.annotation) :
        (self.annotation[i].ref_start = self.annotation[j].ref_start
           /\ self.annotation[i].ref_end = self.annotation[j].ref_end) => i = j
\* the candidates (ne elements) of the stream that are open before position i
OpenNe(ev, i) ==
    Cardinality({j \in 1..(i - 1) : ev[j].kind = "start" /\ ev[j].name = "ne"})
    - Cardinality({j \in 1..(i - 1) : ev[j].kind = "end" /\ ev[j].name = "ne"})

\* C22: in the window, after every event, the depth is the number of open
\* candidates plus one if open_until is set; so depth 0 means open_until = -1, and
\* the assertion of _startToken never fails
C22_DepthAccounting ==
    /\ (self.in_window /\ self.err = "none") =>
          /\ self.nested_depth = OpenNe(stream, pos)
                                   + (IF self.user_cadidate_end # -1 THEN 1 ELSE 0)
          /\ self.nested_depth = 0 => self.user_cadidate_end = -1
    /\ self.err # "AssertionError"

\* in the window a token run is open around an open candidate
C22_Witness ==
    /\ self.in_window /\ self.err = "none"
    /\ OpenNe(stream, pos) = 1 /\ self.user_cadidate_end # -1 /\ self.nested_depth = 2
====
